---- MODULE Spec2Model ----
(***************************************************************************)
(* Model of the speedtest batch transfer driver:                           *)
(*   - LockManager and executeSingleTransfer / executeTransfers            *)
(*     (src/commands/transfers.ts)                                         *)
(*   - validateChains (src/commands/utils.ts)                              *)
(*   - EvmClient.approveToken, TransferService.initiateTransfer            *)
(*   - SpeedrunApiClient.pollIntentStatus (src/speedrun/api.ts)            *)
(*                                                                         *)
(* The program runs on the single-threaded JavaScript event loop.  The     *)
(* model follows it: the synchronous part of every executeSingleTransfer   *)
(* call runs inside transfers.map (Launch), promise continuations run      *)
(* from a FIFO microtask queue (mq), and network replies and timers are    *)
(* delivered one at a time, only when the microtask queue is empty.        *)
(***************************************************************************)
EXTENDS Integers, Sequences, FiniteSets, TLC

\* ------------------------------------------------------------------ bounds
NumTransfers == 3
BatchPollAttempts == 1
MaxAttemptsBound == 6
MaxDelay == 1
MaxAmount == 2
MaxTip == 1
MaxAllowance == 3

\* ------------------------------------------------------- program constants
MAX_NOT_FOUND_ATTEMPTS == 5

Idx == 0 .. (NumTransfers - 1)

\* CHAINS[CURRENT_NETWORK], cut down to one chain without usdt and one with
\* both assets; "solana" is a name the registry does not contain.
SupportedChains == {"base", "arbitrum"}

ChainAssets ==
  [c \in SupportedChains |->
     IF c = "base" THEN {"usdc"} ELSE {"usdc", "usdt"}]

\* TransferConfig entries a YAML file may hold.
Requests ==
  { [src |-> "base",     dst |-> "arbitrum", asset |-> "usdc", amount |-> 1, fee |-> 1],
    [src |-> "arbitrum", dst |-> "base",     asset |-> "usdc", amount |-> 1, fee |-> 1],
    [src |-> "base",     dst |-> "arbitrum", asset |-> "usdt", amount |-> 1, fee |-> 1],
    [src |-> "arbitrum", dst |-> "base",     asset |-> "usdt", amount |-> 1, fee |-> 1],
    [src |-> "solana",   dst |-> "base",     asset |-> "usdc", amount |-> 1, fee |-> 1],
    [src |-> "base",     dst |-> "solana",   asset |-> "usdc", amount |-> 1, fee |-> 1] }

IntentStatuses == {"pending", "fulfilled", "settled", "cancelled", "failed"}

\* What getIntent can return: a record's status, or "null" on a 404.
Responses == IntentStatuses \cup {"null"}

TargetChoices == { {"fulfilled", "settled"}, {"settled"}, {"fulfilled"} }

VARIABLES
  cfg,             \* the transfers array read from the YAML file
  privateKey,      \* whether process.env.EVM_PRIVATE_KEY is set
  launched,        \* number of executeSingleTransfer calls made by transfers.map
  pc,              \* position of each executeSingleTransfer call
  locks,           \* LockManager.locks: chain -> {} or {creator of the entry}
  waiting,         \* per chain: calls suspended on the entry's promise, in await order
  mq,              \* microtask queue: calls whose continuation is ready to run
  subErr,          \* the submission phase of the call threw
  releaseCalled,   \* the call has run releaseLock
  allowance,       \* on-chain allowance(wallet, intent contract) per chain
  sess,            \* pollIntentStatus locals of each call
  now,             \* wall clock read by new Date()
  result,          \* TransferResult.status of each call ("none" before it returns)
  settleOrder,     \* order in which the calls' promises settled
  transferResults, \* executeTransfers: transferResults after the sort
  summaryPrinted,  \* executeTransfers has printed the summary table
  exitCode,        \* "running", "exit0" (normal end) or "exit1" (process.exit(1))
  sub,             \* one initiateTransfer / initiateCall made outside a batch
  thrown,          \* message of the error thrown by the call's submission phase
  message          \* TransferResult.message of each call, as a list of parts

vars == << cfg, sub, thrown, message, privateKey, launched, pc, locks, waiting, mq, subErr,
           releaseCalled, allowance, sess, now, result, settleOrder,
           transferResults, summaryPrinted, exitCode >>

\* ------------------------------------------------------------ pure helpers

\* validateChains: process.exit(1) on an unknown source or destination chain.
validateChains(sourceChain, destChain) ==
  IF sourceChain \notin SupportedChains THEN "exit"
  ELSE IF destChain \notin SupportedChains THEN "exit"
  ELSE "ok"

\* executeSingleTransfer, lines 96-111: asset available on both chains.
AssetOnSource(c) == c.asset \in ChainAssets[c.src]

AssetAvailable(c) ==
  /\ c.asset \in ChainAssets[c.src]
  /\ c.asset \in ChainAssets[c.dst]

\* params.amount + params.tip, the amount initiateTransfer and initiateCall
\* pass to approveTokenCallback.
RequiredAllowance(amount, tip) == amount + tip

\* The allowance initiateTransfer asks approveToken for in call i of a batch.
Need(i) == RequiredAllowance(cfg[i].amount, cfg[i].fee)

\* approveToken, line 82: the early-return test on the allowance just read.
AllowanceAbove(currentAllowance, amount) == currentAllowance > amount

AllowanceSufficient(currentAllowance, amount) == currentAllowance >= amount

\* approveToken, line 91: the amount passed to approve(spender, amount); 255
\* stands for the largest uint256.
UnlimitedApproval(amount) == 255

ApproveAmount(amount) == amount

\* Calls that get as far as acquireLock on chain c.
Lockers(c) ==
  { i \in Idx : /\ validateChains(cfg[i].src, cfg[i].dst) = "ok"
                /\ AssetAvailable(cfg[i])
                /\ cfg[i].src = c }

SubmissionPcs ==
  {"acquired", "allowance", "approve", "approveWait", "preview", "submit", "confirm"}

\* Between the return of acquireLock and the call of releaseLock.
InSubmission(i) == pc[i] \in SubmissionPcs

Running == exitCode = "running"

\* A network reply or a timer is delivered only between macrotasks.
IoReady == Running /\ launched = NumTransfers /\ mq = << >>

IdleSession ==
  [ ph |-> "idle", maxAttempts |-> 0, targets |-> {}, attempts |-> 0,
    intent |-> "null", previousStatus |-> "null", intentFound |-> FALSE,
    startTime |-> 0, fulfilledAt |-> -1, settledAt |-> -1,
    notFoundAttempts |-> 0, sleeps |-> 0, firstSettled |-> 0,
    firstFulfilled |-> 0, everFound |-> FALSE, queries |-> 0, nullRun |-> 0 ]


\* -------------------------------------------- SpeedrunApiClient.pollIntentStatus

\* Locals of pollIntentStatus at its start (lines 68-82); the first getIntent
\* is in flight when the loop is entered.
StartPoll(maxAttempts, targetStatuses, t) ==
  [ IdleSession EXCEPT
      !.ph = IF 0 < maxAttempts THEN "query" ELSE "returned",
      !.queries = IF 0 < maxAttempts THEN 1 ELSE 0,
      !.maxAttempts = maxAttempts,
      !.targets = targetStatuses,
      !.startTime = t ]

\* Lines 118-125: the stop test after a found intent: a target status other
\* than fulfilled ends the loop.
StopsExceptSettled(s, r) == r \in s.targets /\ r # "settled"

StopsAtAnyTarget(s, r) == r \in s.targets

StopsAtTerminal(s, r) == r \in {"settled", "cancelled", "failed"}

StopsPolling(s, r) == r \in s.targets /\ r # "fulfilled"

\* Lines 89-94: the test made after counting a not-found reply.
CeilingExceeded(nf) == nf > MAX_NOT_FOUND_ATTEMPTS

NotFoundCeilingReached(nf) == nf >= MAX_NOT_FOUND_ATTEMPTS

\* Lines 85-126: one getIntent reply r ("null" for a 404) handled at time t.
\* nullRun, firstFulfilled, firstSettled and everFound record the replies
\* received; the code does not read them.
OnResponse(s, r, t) ==
  LET n     == s.attempts + 1
      nf    == s.notFoundAttempts + 1
      fresh == r # s.previousStatus
  IN IF r = "null"
     THEN [ s EXCEPT
              !.attempts = n,
              !.intent = "null",
              !.notFoundAttempts = nf,
              !.nullRun = @ + 1,
              !.ph = IF NotFoundCeilingReached(nf) THEN "thrownNotFound" ELSE "sleep" ]
     ELSE [ s EXCEPT
              !.attempts = n,
              !.intent = r,
              !.intentFound = TRUE,
              !.everFound = TRUE,
              !.nullRun = 0,
              !.previousStatus = IF fresh THEN r ELSE @,
              !.fulfilledAt = IF fresh /\ r = "fulfilled" THEN t ELSE @,
              !.settledAt = IF fresh /\ r = "settled" THEN t ELSE @,
              !.firstFulfilled = IF @ = 0 /\ r = "fulfilled" THEN n ELSE @,
              !.firstSettled = IF @ = 0 /\ r = "settled" THEN n ELSE @,
              !.ph = IF StopsPolling(s, r) THEN "returned" ELSE "sleep" ]

\* getIntent rethrows every error other than a 404 (lines 46-51).
OnApiError(s) == [ s EXCEPT !.ph = "thrownApi" ]

\* Lines 128-130 and 84: the timer fires, then the loop condition is tested.
OnTimer(s) ==
  [ s EXCEPT
      !.sleeps = @ + 1,
      !.queries = IF s.attempts < s.maxAttempts THEN @ + 1 ELSE @,
      !.ph = IF s.attempts < s.maxAttempts THEN "query" ELSE "returned" ]

\* Line 135, `if (fulfilledAt)`: a fulfilled timestamp was recorded.
FulfilledOrRecorded(s) == s.fulfilledAt # -1 \/ s.intent = "settled"

FulfilledKnown(s) == s.fulfilledAt # -1

\* Lines 132-146: the IntentStatusResult.  hasFulfill and hasSettle tell which
\* optional fields the result carries; an absent field is shown as -1.
PollResult(s) ==
  LET f  == FulfilledKnown(s)
      st == s.settledAt # -1 /\ f
  IN [ intent        |-> s.intent,
       hasFulfill    |-> f,
       hasSettle     |-> st,
       fulfilledAt   |-> IF f THEN s.fulfilledAt ELSE -1,
       timeToFulfill |-> IF f THEN s.fulfilledAt - s.startTime ELSE -1,
       settledAt     |-> IF st THEN s.settledAt ELSE -1,
       timeToSettle  |-> IF st THEN s.settledAt - s.fulfilledAt ELSE -1,
       totalTime     |-> IF st THEN s.settledAt - s.startTime ELSE -1 ]

\* handleIntentStatus as called by executeSingleTransfer: the status of the
\* value it returns once polling has ended.
ClassifyUnsettledAsFailed(s) ==
  IF s.ph \in {"thrownNotFound", "thrownApi"} THEN "failed"
  ELSE IF s.intent = "settled" THEN "settled"
  ELSE IF s.intent = "fulfilled" THEN "fulfilled"
  ELSE "failed"

Classify(s) ==
  IF s.ph \in {"thrownNotFound", "thrownApi"} THEN "failed"
  ELSE IF s.intent = "null" THEN "failed"
  ELSE IF s.intent = "settled" THEN "settled"
  ELSE IF s.intent = "fulfilled" THEN "fulfilled"
  ELSE "pending"


\* ------------------------------- EvmClient / TransferService / CallService

Spenders == {"intent", "initiator"}

\* The contract a submission talks to: TransferService uses the intent
\* contract of the chain, CallService the initiator contract of the request.
ContractOf(kind) == IF kind = "transfer" THEN "intent" ELSE "initiator"

\* The spender approveToken is called with: EvmClient.initiateTransfer passes
\* none (the intent contract is the default), EvmClient.initiateCall passes
\* params.initiatorAddress.
AlwaysIntent(kind) == "intent"

SpenderOf(kind) == IF kind = "transfer" THEN "intent" ELSE "initiator"

IdleSubmission ==
  [ ph |-> "idle", kind |-> "transfer", amount |-> 0, tip |-> 0,
    spender |-> "intent", required |-> 0, currentAllowance |-> -1,
    approveTxs |-> 0, approveAmount |-> -1, approveMined |-> FALSE,
    chain0 |-> [sp \in Spenders |-> 0], chain |-> [sp \in Spenders |-> 0],
    trace |-> << >> ]

\* initiateTransfer / initiateCall up to the first await: approveTokenCallback
\* is called with amount + tip and approveToken sends the allowance() read.
\* chain is the on-chain allowance(wallet, spender) of the asset.
StartSubmission(kind, amount, tip, chain) ==
  [ IdleSubmission EXCEPT
      !.ph = "allowance",
      !.kind = kind,
      !.amount = amount,
      !.tip = tip,
      !.spender = SpenderOf(kind),
      !.required = RequiredAllowance(amount, tip),
      !.chain0 = chain,
      !.chain = chain,
      !.trace = << "allowance" >> ]

\* approveToken, lines 76-91: the allowance() read returns; with a sufficient
\* allowance approveToken returns and the caller sends getNextIntentId,
\* otherwise approve(spender, amount) is sent.
OnAllowance(s) ==
  LET a == s.chain[s.spender]
  IN IF AllowanceSufficient(a, s.required)
     THEN [ s EXCEPT !.currentAllowance = a,
                     !.ph = "preview",
                     !.trace = Append(@, "preview") ]
     ELSE [ s EXCEPT !.currentAllowance = a,
                     !.ph = "approve",
                     !.approveTxs = @ + 1,
                     !.approveAmount = ApproveAmount(s.required),
                     !.trace = Append(@, "approveTx") ]

\* approveToken, lines 91-92: approve resolved with the transaction, wait().
OnApproveSent(s) ==
  [ s EXCEPT !.ph = "approveWait", !.trace = Append(@, "approveWait") ]

\* approveToken, lines 92-95: the approve transaction is mined (ERC20 approve
\* sets the allowance); approveToken returns, getNextIntentId is sent.
OnApproveMined(s) ==
  [ s EXCEPT !.ph = "preview",
             !.approveMined = TRUE,
             !.chain = [@ EXCEPT ![s.spender] = s.approveAmount],
             !.trace = Append(@, "preview") ]

\* getNextIntentId returned; the state-changing transaction is sent.
OnPreview(s) ==
  [ s EXCEPT !.ph = "submit", !.trace = Append(@, "intentTx") ]

\* The transaction call resolved; tx.wait() starts.
OnIntentSent(s) ==
  [ s EXCEPT !.ph = "confirm", !.trace = Append(@, "intentWait") ]

\* tx.wait() ends: the contract pulls amount + tip from the wallet, spending
\* the allowance given to it, and { intentId, txHash } is returned; with too
\* small an allowance the transaction reverts and wait() throws.
OnIntentMined(s) ==
  LET c == ContractOf(s.kind)
  IN IF s.chain[c] >= s.amount + s.tip
     THEN [ s EXCEPT !.ph = "returned",
                     !.chain = [@ EXCEPT ![c] = @ - (s.amount + s.tip)],
                     !.trace = Append(@, "return") ]
     ELSE [ s EXCEPT !.ph = "threw" ]

\* Any RPC of the submission fails; the error leaves the submission.
OnRpcError(s) == [ s EXCEPT !.ph = "threw" ]


\* ------------------------------------------------------------- LockManager

\* acquireLock up to its first suspension (lines 48-63), called by transfer i
\* for chain c: either the entry is created and the call returns, or the
\* caller is suspended on the promise of the entry that exists.
AcquireNeverWaits(i, c) ==
  /\ locks' = [locks EXCEPT ![c] = {i}]
  /\ pc' = [pc EXCEPT ![i] = "acquired"]
  /\ mq' = Append(mq, i)
  /\ UNCHANGED waiting

\* A releaseLock that deletes the entry without calling resolve(): the calls
\* suspended on the promise stay suspended.
ReleaseWithoutResolve(i, c) ==
  /\ locks' = [locks EXCEPT ![c] = {}]
  /\ mq' = Append(mq, i)
  /\ pc' = [pc EXCEPT ![i] = "released"]
  /\ UNCHANGED waiting

acquireLock(i, c) ==
  IF locks[c] = {}
  THEN /\ locks' = [locks EXCEPT ![c] = {i}]
       /\ pc' = [pc EXCEPT ![i] = "acquired"]
       /\ mq' = Append(mq, i)
       /\ UNCHANGED waiting
  ELSE /\ pc' = [pc EXCEPT ![i] = "waiting"]
       /\ waiting' = [waiting EXCEPT ![c] = Append(@, i)]
       /\ UNCHANGED << locks, mq >>

\* The calls suspended on chain c's promise, after resolve() has run.
Woken(c) == { waiting[c][k] : k \in 1 .. Len(waiting[c]) }

\* releaseLock (lines 65-72) called by transfer i for chain c, followed by
\* the caller's `await`: the entry is deleted, resolve() queues every call
\* suspended on the promise, then the caller's own continuation is queued.
releaseLock(i, c) ==
  IF locks[c] # {}
  THEN /\ locks' = [locks EXCEPT ![c] = {}]
       /\ waiting' = [waiting EXCEPT ![c] = << >>]
       /\ mq' = (mq \o waiting[c]) \o << i >>
       /\ pc' = [j \in Idx |->
                   IF j = i THEN "released"
                   ELSE IF j \in Woken(c) THEN "woken"
                   ELSE pc[j]]
  ELSE /\ mq' = Append(mq, i)
       /\ pc' = [pc EXCEPT ![i] = "released"]
       /\ UNCHANGED << locks, waiting >>

\* ------------------------------------------------- executeSingleTransfer

\* The message of the error an RPC of the submission phase fails with, named
\* after the step that failed.
RpcError(step) == step

\* A catch block that reports the failure without the error it caught.
GenericMessage(msg) == << "Transfer failed" >>

\* Lines 171-183: the message of the result built by the catch block,
\* `Transfer failed: ${error.message}`, as the list of its two parts.
CatchMessage(msg) == << "Transfer failed: ", msg >>

\* The message handleIntentStatus returns with status st.
StatusMessage(st) == << "status: ", st >>

\* The promise of call i settles with TransferResult.status st and
\* TransferResult.message msg.
Settle(i, st, msg) ==
  /\ result' = [result EXCEPT ![i] = st]
  /\ message' = [message EXCEPT ![i] = msg]
  /\ settleOrder' = Append(settleOrder, i)

\* Lines 80-136: the synchronous part of call i, run inside transfers.map.
Launch(i) ==
  /\ Running
  /\ launched = i
  /\ i \in Idx
  /\ IF ~privateKey
     THEN \* line 84: thrown outside the try block, the promise rejects
          /\ pc' = [pc EXCEPT ![i] = "rejected"]
          /\ Settle(i, "none", << >>)
          /\ launched' = launched + 1
          /\ UNCHANGED << locks, waiting, mq, exitCode >>
     ELSE IF validateChains(cfg[i].src, cfg[i].dst) = "exit"
     THEN \* process.exit(1) inside validateChains
          /\ exitCode' = "exit1"
          /\ UNCHANGED << pc, result, message, settleOrder, launched, locks, waiting, mq >>
     ELSE IF ~AssetAvailable(cfg[i])
     THEN \* lines 96-111 throw into the catch block of line 171
          /\ pc' = [pc EXCEPT ![i] = "done"]
          /\ Settle(i, "failed", CatchMessage("asset not available"))
          /\ launched' = launched + 1
          /\ UNCHANGED << locks, waiting, mq, exitCode >>
     ELSE /\ acquireLock(i, cfg[i].src)
          /\ launched' = launched + 1
          /\ UNCHANGED << result, message, settleOrder, exitCode >>
  /\ UNCHANGED << cfg, sub, thrown, privateKey, subErr, releaseCalled, allowance, sess, now,
                  transferResults, summaryPrinted >>

\* The head of the microtask queue is call i.
Turn(i) == Running /\ launched = NumTransfers /\ mq # << >> /\ Head(mq) = i

\* acquireLock resumes after `await promise` (line 62) and returns.
AcquireLockResumes(i) ==
  /\ Turn(i)
  /\ pc[i] = "woken"
  /\ pc' = [pc EXCEPT ![i] = "acquired"]
  /\ mq' = Append(Tail(mq), i)
  /\ UNCHANGED << cfg, sub, thrown, message, privateKey, launched, locks, waiting, subErr, releaseCalled,
                  allowance, sess, now, result, settleOrder, transferResults,
                  summaryPrinted, exitCode >>

\* Line 140: sourceClient.initiateTransfer is called; approveToken sends the
\* allowance() read (EvmClient.approveToken, lines 76-79).
EnterSubmission(i) ==
  /\ Turn(i)
  /\ pc[i] = "acquired"
  /\ pc' = [pc EXCEPT ![i] = "allowance"]
  /\ mq' = Tail(mq)
  /\ UNCHANGED << cfg, sub, thrown, message, privateKey, launched, locks, waiting, subErr, releaseCalled,
                  allowance, sess, now, result, settleOrder, transferResults,
                  summaryPrinted, exitCode >>

\* Lines 143-146: the finally block of the submission phase; failed tells
\* whether initiateTransfer threw.
ExitWithoutFinally(i, failed) ==
  /\ subErr' = [subErr EXCEPT ![i] = failed]
  /\ IF failed
     THEN /\ mq' = Append(mq, i)
          /\ pc' = [pc EXCEPT ![i] = "released"]
          /\ UNCHANGED << locks, waiting, releaseCalled >>
     ELSE /\ releaseLock(i, cfg[i].src)
          /\ releaseCalled' = [releaseCalled EXCEPT ![i] = TRUE]

ExitKeepingLock(i, failed) ==
  /\ subErr' = [subErr EXCEPT ![i] = failed]
  /\ mq' = Append(mq, i)
  /\ pc' = [pc EXCEPT ![i] = "released"]
  /\ UNCHANGED << locks, waiting, releaseCalled >>

ExitSubmission(i, failed) ==
  /\ subErr' = [subErr EXCEPT ![i] = failed]
  /\ releaseLock(i, cfg[i].src)
  /\ releaseCalled' = [releaseCalled EXCEPT ![i] = TRUE]


\* What a step of the submission phase leaves alone besides pc and the lock.
SubmissionFrame ==
  UNCHANGED << cfg, sub, message, privateKey, launched, sess, now, result, settleOrder,
               transferResults, summaryPrinted, exitCode >>

\* Step of call i that stays inside the submission phase.
Advance(i, to) ==
  /\ pc' = [pc EXCEPT ![i] = to]
  /\ UNCHANGED << locks, waiting, mq, subErr, releaseCalled, thrown >>

\* EvmClient.approveToken, lines 76-91: the allowance() read returns; the
\* approve transaction is sent only when the allowance is below amount + tip,
\* otherwise initiateTransfer goes on to getNextIntentId.
AllowanceReturns(i) ==
  /\ IoReady
  /\ pc[i] = "allowance"
  /\ IF AllowanceSufficient(allowance[cfg[i].src], Need(i))
     THEN Advance(i, "preview")
     ELSE Advance(i, "approve")
  /\ UNCHANGED allowance
  /\ SubmissionFrame

\* approveToken, line 91: the approve transaction is accepted; tx.wait() starts.
ApproveSent(i) ==
  /\ IoReady
  /\ pc[i] = "approve"
  /\ Advance(i, "approveWait")
  /\ UNCHANGED allowance
  /\ SubmissionFrame

\* approveToken, line 92: the approve transaction is mined; ERC20 approve sets
\* the allowance to the approved amount.  initiateTransfer, line 56, then
\* sends getNextIntentId.
ApproveConfirmed(i) ==
  /\ IoReady
  /\ pc[i] = "approveWait"
  /\ allowance' = [allowance EXCEPT ![cfg[i].src] = ApproveAmount(Need(i))]
  /\ Advance(i, "preview")
  /\ SubmissionFrame

\* TransferService.initiateTransfer, lines 56-73: getNextIntentId returns and
\* the initiateTransfer transaction is sent.
PreviewReturns(i) ==
  /\ IoReady
  /\ pc[i] = "preview"
  /\ Advance(i, "submit")
  /\ UNCHANGED allowance
  /\ SubmissionFrame

\* initiateTransfer, lines 65-76: the transaction is accepted; tx.wait() starts.
TransferSent(i) ==
  /\ IoReady
  /\ pc[i] = "submit"
  /\ Advance(i, "confirm")
  /\ UNCHANGED allowance
  /\ SubmissionFrame

\* initiateTransfer, lines 76-78: the transaction is mined.  The intent
\* contract pulls amount + tip from the wallet, which spends the allowance;
\* with too small an allowance the transaction reverts and tx.wait() throws.
TransferConfirmed(i) ==
  /\ IoReady
  /\ pc[i] = "confirm"
  /\ IF allowance[cfg[i].src] >= Need(i)
     THEN /\ allowance' = [allowance EXCEPT ![cfg[i].src] = @ - Need(i)]
          /\ ExitSubmission(i, FALSE)
          /\ UNCHANGED thrown
     ELSE /\ UNCHANGED allowance
          /\ ExitSubmission(i, TRUE)
          /\ thrown' = [thrown EXCEPT ![i] = "execution reverted"]
  /\ SubmissionFrame

\* Any RPC of the submission phase fails (network error, revert): the error
\* leaves initiateTransfer and reaches the finally block.
SubmissionRpcFails(i) ==
  /\ IoReady
  /\ pc[i] \in {"allowance", "approve", "approveWait", "preview", "submit", "confirm"}
  /\ ExitSubmission(i, TRUE)
  /\ thrown' = [thrown EXCEPT ![i] = RpcError(pc[i])]
  /\ UNCHANGED allowance
  /\ SubmissionFrame

\* Lines 171-183: after `await releaseLock` the error is rethrown out of the
\* finally block and caught; the call returns a failed TransferResult.
CatchSubmissionError(i) ==
  /\ Turn(i)
  /\ pc[i] = "released"
  /\ subErr[i]
  /\ pc' = [pc EXCEPT ![i] = "done"]
  /\ mq' = Tail(mq)
  /\ Settle(i, "failed", CatchMessage(thrown[i]))
  /\ UNCHANGED << cfg, sub, thrown, privateKey, launched, locks, waiting, subErr, releaseCalled,
                  allowance, sess, now, transferResults, summaryPrinted, exitCode >>

\* Lines 148-158: after `await releaseLock`, handleIntentStatus starts
\* pollIntentStatus with the targets fulfilled and settled.
StartPolling(i) ==
  /\ Turn(i)
  /\ pc[i] = "released"
  /\ ~subErr[i]
  /\ pc' = [pc EXCEPT ![i] = "polling"]
  /\ mq' = Tail(mq)
  /\ sess' = [sess EXCEPT ![i] = StartPoll(BatchPollAttempts, {"fulfilled", "settled"}, now)]
  /\ UNCHANGED << cfg, sub, thrown, message, privateKey, launched, locks, waiting, subErr, releaseCalled,
                  allowance, now, result, settleOrder, transferResults,
                  summaryPrinted, exitCode >>

\* What a step of the polling phase leaves alone.
PollFrame ==
  UNCHANGED << cfg, sub, thrown, privateKey, launched, locks, waiting, mq, subErr, releaseCalled,
               allowance, now, transferResults, summaryPrinted, exitCode >>

\* handleIntentStatus once the session of call i has become s2: it goes on
\* polling, reads the destination balance of a fulfilled or settled intent
\* (utils.ts, lines 59-107), or returns.
AfterPoll(i, s2) ==
  /\ sess' = [sess EXCEPT ![i] = s2]
  /\ IF s2.ph \in {"query", "sleep"}
     THEN UNCHANGED << pc, result, message, settleOrder >>
     ELSE IF s2.ph = "returned" /\ s2.intent \in {"fulfilled", "settled"}
     THEN /\ pc' = [pc EXCEPT ![i] = "balanceOf"]
          /\ UNCHANGED << result, message, settleOrder >>
     ELSE /\ pc' = [pc EXCEPT ![i] = "done"]
          /\ Settle(i, Classify(s2), StatusMessage(Classify(s2)))

\* A getIntent reply arrives for call i.
QueryReturns(i) ==
  /\ IoReady
  /\ pc[i] = "polling"
  /\ sess[i].ph = "query"
  /\ \E r \in Responses : AfterPoll(i, OnResponse(sess[i], r, now))
  /\ PollFrame

\* getIntent of call i fails with an error other than a 404.
QueryFails(i) ==
  /\ IoReady
  /\ pc[i] = "polling"
  /\ sess[i].ph = "query"
  /\ AfterPoll(i, OnApiError(sess[i]))
  /\ PollFrame

\* The inter-poll timer of call i fires.
TimerFires(i) ==
  /\ IoReady
  /\ pc[i] = "polling"
  /\ sess[i].ph = "sleep"
  /\ AfterPoll(i, OnTimer(sess[i]))
  /\ PollFrame

\* EvmClient.getTokenBalance, lines 48-49: balanceOf returns, decimals is sent.
BalanceOfReturns(i) ==
  /\ IoReady
  /\ pc[i] = "balanceOf"
  /\ pc' = [pc EXCEPT ![i] = "decimals"]
  /\ UNCHANGED << sess, result, message, settleOrder >>
  /\ PollFrame

\* getTokenBalance, lines 49-51: decimals returns; handleIntentStatus returns
\* and the call resolves with the classified status.
DecimalsReturns(i) ==
  /\ IoReady
  /\ pc[i] = "decimals"
  /\ pc' = [pc EXCEPT ![i] = "done"]
  /\ Settle(i, Classify(sess[i]), StatusMessage(Classify(sess[i])))
  /\ UNCHANGED sess
  /\ PollFrame

\* A balance read fails: the error is caught and the transfer is failed.
BalanceFails(i) ==
  /\ IoReady
  /\ pc[i] \in {"balanceOf", "decimals"}
  /\ pc' = [pc EXCEPT ![i] = "done"]
  /\ Settle(i, "failed", CatchMessage("balance read failed"))
  /\ UNCHANGED sess
  /\ PollFrame


\* ------------------------------------------------------- executeTransfers

\* Promise.allSettled (line 215): every call's promise has settled.
SomeSettled == \E i \in Idx : pc[i] \in {"done", "rejected"}

AllSettled == \A i \in Idx : pc[i] \in {"done", "rejected"}

\* Lines 226-251: the entry pushed for request i; a rejected promise becomes
\* a failed entry.
ResultOf(i) ==
  [ index |-> i, status |-> IF pc[i] = "rejected" THEN "failed" ELSE result[i] ]

\* results.forEach pushes one entry per promise, in the order of the array.
CollectResults == [ k \in 1 .. NumTransfers |-> ResultOf(k - 1) ]

\* Insert entry e into a sequence sorted by index.
Insert(e, seq) ==
  LET before == SelectSeq(seq, LAMBDA x : x.index <= e.index)
      after  == SelectSeq(seq, LAMBDA x : x.index > e.index)
  IN (before \o << e >>) \o after

RECURSIVE SortByIndex(_)
\* Line 254: transferResults.sort((a, b) => a.index - b.index).
SortByIndex(seq) ==
  IF seq = << >> THEN << >>
  ELSE Insert(Head(seq), SortByIndex(Tail(seq)))

\* Lines 230-235: every status other than settled goes to failedTransfers.
OnlyFailedCounts(st) == st = "failed"

CountsAsFailure(st) == st # "settled"

\* Lines 215-314: all promises have settled; the results are collected and
\* sorted, the summary is printed and the process exits with 1 when
\* failedTransfers is not empty.
Summarize ==
  /\ IoReady
  /\ ~summaryPrinted
  /\ AllSettled
  /\ transferResults' = SortByIndex(CollectResults)
  /\ summaryPrinted' = TRUE
  /\ exitCode' =
       IF \E k \in 1 .. NumTransfers : CountsAsFailure(CollectResults[k].status)
       THEN "exit1" ELSE "exit0"
  /\ UNCHANGED << cfg, sub, thrown, message, privateKey, launched, pc, locks, waiting, mq, subErr,
                  releaseCalled, allowance, sess, now, result, settleOrder >>

\* ----------------------------------------------------------- batch run

Init ==
  /\ cfg \in [Idx -> Requests]
  /\ sub = IdleSubmission
  /\ thrown = [i \in Idx |-> "none"]
  /\ message = [i \in Idx |-> << >>]
  /\ privateKey \in BOOLEAN
  /\ launched = 0
  /\ pc = [i \in Idx |-> "init"]
  /\ locks = [c \in SupportedChains |-> {}]
  /\ waiting = [c \in SupportedChains |-> << >>]
  /\ mq = << >>
  /\ subErr = [i \in Idx |-> FALSE]
  /\ releaseCalled = [i \in Idx |-> FALSE]
  /\ allowance \in { [c \in SupportedChains |-> a] : a \in {0, 2} }
  /\ sess = [i \in Idx |-> IdleSession]
  /\ now = 0
  /\ result = [i \in Idx |-> "none"]
  /\ settleOrder = << >>
  /\ transferResults = << >>
  /\ summaryPrinted = FALSE
  /\ exitCode = "running"

Next ==
  \/ \E i \in Idx : Launch(i)
  \/ \E i \in Idx : AcquireLockResumes(i)
  \/ \E i \in Idx : EnterSubmission(i)
  \/ \E i \in Idx : AllowanceReturns(i)
  \/ \E i \in Idx : ApproveSent(i)
  \/ \E i \in Idx : ApproveConfirmed(i)
  \/ \E i \in Idx : PreviewReturns(i)
  \/ \E i \in Idx : TransferSent(i)
  \/ \E i \in Idx : TransferConfirmed(i)
  \/ \E i \in Idx : SubmissionRpcFails(i)
  \/ \E i \in Idx : CatchSubmissionError(i)
  \/ \E i \in Idx : StartPolling(i)
  \/ \E i \in Idx : QueryReturns(i)
  \/ \E i \in Idx : QueryFails(i)
  \/ \E i \in Idx : TimerFires(i)
  \/ \E i \in Idx : BalanceOfReturns(i)
  \/ \E i \in Idx : DecimalsReturns(i)
  \/ \E i \in Idx : BalanceFails(i)
  \/ Summarize

Spec == Init /\ [][Next]_vars

\* The batch under the scheduling of the Node.js event loop: a queued
\* microtask is run, and a pending RPC, HTTP request or timer completes, so
\* the program takes a step whenever one is possible.
\* The batches whose calls all name the source chain base, some of them
\* possibly with a destination chain that validateChains rejects, run with a
\* private key and no allowance granted yet.
InitLive ==
  /\ Init
  /\ privateKey
  /\ \A i \in Idx : cfg[i].src = "base" /\ cfg[i].asset = "usdc"
  /\ allowance["base"] = 0

SpecLive == InitLive /\ [][Next]_vars /\ WF_vars(Next)

\* ------------------------------------------- one pollIntentStatus session

\* A single pollIntentStatus call (session 0) with its parameters drawn from
\* bounded sets; the wall clock advances between the events of the session.
InitPoll ==
  /\ cfg = [i \in Idx |->
              [src |-> "base", dst |-> "arbitrum", asset |-> "usdc",
               amount |-> 1, fee |-> 1]]
  /\ sub = IdleSubmission
  /\ thrown = [i \in Idx |-> "none"]
  /\ message = [i \in Idx |-> << >>]
  /\ privateKey = TRUE
  /\ launched = NumTransfers
  /\ pc = [i \in Idx |-> "idle"]
  /\ locks = [c \in SupportedChains |-> {}]
  /\ waiting = [c \in SupportedChains |-> << >>]
  /\ mq = << >>
  /\ subErr = [i \in Idx |-> FALSE]
  /\ releaseCalled = [i \in Idx |-> FALSE]
  /\ allowance = [c \in SupportedChains |-> 0]
  /\ \E m \in 0 .. MaxAttemptsBound, tg \in TargetChoices :
       sess = [i \in Idx |-> IF i = 0 THEN StartPoll(m, tg, 0) ELSE IdleSession]
  /\ now = 0
  /\ result = [i \in Idx |-> "none"]
  /\ settleOrder = << >>
  /\ transferResults = << >>
  /\ summaryPrinted = FALSE
  /\ exitCode = "running"

PollUnchanged ==
  UNCHANGED << cfg, sub, thrown, message, privateKey, launched, pc, locks, waiting, mq, subErr,
               releaseCalled, allowance, result, settleOrder, transferResults,
               summaryPrinted, exitCode >>

\* A getIntent reply arrives d ticks after the previous event.
PollReply ==
  /\ sess[0].ph = "query"
  /\ \E r \in Responses, d \in 0 .. MaxDelay :
       /\ now' = now + d
       /\ sess' = [sess EXCEPT ![0] = OnResponse(@, r, now + d)]
  /\ PollUnchanged

\* getIntent fails with an error other than a 404.
PollApiError ==
  /\ sess[0].ph = "query"
  /\ sess' = [sess EXCEPT ![0] = OnApiError(@)]
  /\ UNCHANGED now
  /\ PollUnchanged

\* The inter-poll timer fires one interval (one tick) after it was set; any
\* further lateness is part of the delay of the reply that follows.
PollTimer ==
  /\ sess[0].ph = "sleep"
  /\ now' = now + 1
  /\ sess' = [sess EXCEPT ![0] = OnTimer(@)]
  /\ PollUnchanged

NextPoll == PollReply \/ PollApiError \/ PollTimer

SpecPoll == InitPoll /\ [][NextPoll]_vars


\* ------------------------------- one initiateTransfer / initiateCall call

\* A single submission as made by the transfer and call commands: its kind
\* and amounts and the allowances found on chain are drawn from bounded sets.
InitSubmit ==
  /\ cfg = [i \in Idx |->
              [src |-> "base", dst |-> "arbitrum", asset |-> "usdc",
               amount |-> 1, fee |-> 1]]
  /\ \E kind \in {"transfer", "call"}, amount \in 1 .. MaxAmount,
        tip \in 0 .. MaxTip, chain \in [Spenders -> 0 .. MaxAllowance] :
       sub = StartSubmission(kind, amount, tip, chain)
  /\ thrown = [i \in Idx |-> "none"]
  /\ message = [i \in Idx |-> << >>]
  /\ privateKey = TRUE
  /\ launched = NumTransfers
  /\ pc = [i \in Idx |-> "idle"]
  /\ locks = [c \in SupportedChains |-> {}]
  /\ waiting = [c \in SupportedChains |-> << >>]
  /\ mq = << >>
  /\ subErr = [i \in Idx |-> FALSE]
  /\ releaseCalled = [i \in Idx |-> FALSE]
  /\ allowance = [c \in SupportedChains |-> 0]
  /\ sess = [i \in Idx |-> IdleSession]
  /\ now = 0
  /\ result = [i \in Idx |-> "none"]
  /\ settleOrder = << >>
  /\ transferResults = << >>
  /\ summaryPrinted = FALSE
  /\ exitCode = "running"

SubmitUnchanged ==
  UNCHANGED << cfg, thrown, message, privateKey, launched, pc, locks, waiting, mq, subErr,
               releaseCalled, allowance, sess, now, result, settleOrder,
               transferResults, summaryPrinted, exitCode >>

SubmitAllowanceReturns ==
  /\ sub.ph = "allowance"
  /\ sub' = OnAllowance(sub)
  /\ SubmitUnchanged

SubmitApproveSent ==
  /\ sub.ph = "approve"
  /\ sub' = OnApproveSent(sub)
  /\ SubmitUnchanged

SubmitApproveConfirmed ==
  /\ sub.ph = "approveWait"
  /\ sub' = OnApproveMined(sub)
  /\ SubmitUnchanged

SubmitPreviewReturns ==
  /\ sub.ph = "preview"
  /\ sub' = OnPreview(sub)
  /\ SubmitUnchanged

SubmitIntentSent ==
  /\ sub.ph = "submit"
  /\ sub' = OnIntentSent(sub)
  /\ SubmitUnchanged

SubmitIntentConfirmed ==
  /\ sub.ph = "confirm"
  /\ sub' = OnIntentMined(sub)
  /\ SubmitUnchanged

SubmitRpcFails ==
  /\ sub.ph \in {"allowance", "approve", "approveWait", "preview", "submit", "confirm"}
  /\ sub' = OnRpcError(sub)
  /\ SubmitUnchanged

NextSubmit ==
  \/ SubmitAllowanceReturns
  \/ SubmitApproveSent
  \/ SubmitApproveConfirmed
  \/ SubmitPreviewReturns
  \/ SubmitIntentSent
  \/ SubmitIntentConfirmed
  \/ SubmitRpcFails

SpecSubmit == InitSubmit /\ [][NextSubmit]_vars


\* ================================================================ claims

\* Calls on chain c that are inside their submission phase.
Submitting(c) == { i \in Idx : InSubmission(i) /\ cfg[i].src = c }

\* The submission-phase positions at which an RPC is in flight.
RpcPcs == {"allowance", "approve", "approveWait", "preview", "submit", "confirm"}

\* C1: for any number of transfers with the same source chain, at most one of
\* them is between the return of its acquireLock and its releaseLock call.
C1_MutualExclusion ==
  \A c \in SupportedChains : Cardinality(Submitting(c)) <= 1

\* C2: when exactly two transfers of the batch lock the same source chain,
\* their submission phases never overlap; and a call suspended in acquireLock
\* is always waiting for an entry made by another call on its own source
\* chain, so calls on different chains never wait on each other.
C2_PairExclusion ==
  /\ \A c \in SupportedChains :
       Cardinality(Lockers(c)) = 2 => Cardinality(Submitting(c)) <= 1
  /\ \A i \in Idx :
       pc[i] = "waiting" =>
         \E j \in Lockers(cfg[i].src) \ {i} : locks[cfg[i].src] = {j}

\* C2 witness: on a chain with exactly two lockers one call is confirming
\* while the other waits, and a call on another chain has an RPC in flight
\* at the same time.
C2_Witness ==
  \E c \in SupportedChains, i, j, k \in Idx :
    /\ Lockers(c) = {i, j}
    /\ i # j
    /\ pc[i] = "confirm"
    /\ pc[j] = "waiting"
    /\ cfg[k].src # c
    /\ pc[k] \in RpcPcs

\* C3: lock acquisition is FIFO per chain and each release lets exactly one
\* waiter proceed: no step takes more than one call of a chain out of its
\* wait in acquireLock.
C3_OneWaiterPerRelease ==
  [][ \A c \in SupportedChains :
        Cardinality({ i \in Idx : /\ cfg[i].src = c
                                  /\ pc[i] = "waiting"
                                  /\ pc'[i] # "waiting" }) <= 1 ]_vars

\* C4: when the submission phase of a call has thrown, releaseLock has run
\* before the error reaches the catch block, the chain is not left locked by
\* that call, and no call is left waiting in acquireLock for that chain.
C4_ReleaseOnFailure ==
  \A i \in Idx :
    subErr[i] =>
      /\ releaseCalled[i]
      /\ locks[cfg[i].src] # {i}
      /\ \A j \in Idx : cfg[j].src = cfg[i].src => pc[j] # "waiting"

\* C4 witness: the first locker of a chain failed and got a failed result,
\* and a call that had to wait for it is now confirming its own submission.
C4_Witness ==
  \E i, j \in Idx :
    /\ i < j
    /\ cfg[i].src = cfg[j].src
    /\ \A k \in Lockers(cfg[i].src) : i <= k
    /\ subErr[i]
    /\ pc[i] = "done"
    /\ result[i] = "failed"
    /\ pc[j] = "confirm"

PollPcs == {"polling", "balanceOf", "decimals"}

\* C5: status polling is never done under the lock: a call that has issued a
\* status query has called releaseLock before, and while a call is in its
\* polling phase the lock table holds no entry made by it and no call waits
\* in acquireLock for its chain.
C5_PollOutsideLock ==
  \A i \in Idx :
    /\ sess[i].queries > 0 => releaseCalled[i]
    /\ pc[i] \in PollPcs =>
         /\ releaseCalled[i]
         /\ locks[cfg[i].src] # {i}
         /\ \A j \in Idx : cfg[j].src = cfg[i].src => pc[j] # "waiting"

\* C5 witness: a call is waiting for a status reply while a later call on the
\* same chain is sending its transaction.
C5_Witness ==
  \E i, j \in Idx :
    /\ i # j
    /\ cfg[i].src = cfg[j].src
    /\ pc[i] = "polling"
    /\ sess[i].ph = "query"
    /\ pc[j] = "submit"

\* C6: executeTransfers over N requests always ends with exactly N results,
\* one for each request index, every call having run to its end, and a call
\* whose submission phase threw is reported as failed.
C6_AllResults ==
  exitCode # "running" =>
    /\ Len(transferResults) = NumTransfers
    /\ \A i \in Idx : pc[i] \in {"done", "rejected"}
    /\ \A k \in 1 .. Len(transferResults) :
         /\ transferResults[k].index = k - 1
         /\ subErr[k - 1] => transferResults[k].status = "failed"

\* A request with a configuration error: missing credential, unsupported
\* chain name, or asset unavailable on a chain.
ConfigError(i) ==
  \/ ~privateKey
  \/ validateChains(cfg[i].src, cfg[i].dst) = "exit"
  \/ ~AssetAvailable(cfg[i])

\* C7: in a batch, a configuration error in one transfer aborts only that
\* transfer: the run ends with the summary, the transfer is reported failed
\* and every sibling has run to its end and is in the summary.
C7_ConfigErrorIsolated ==
  \A i \in Idx :
    (ConfigError(i) /\ exitCode # "running") =>
      /\ summaryPrinted
      /\ Len(transferResults) = NumTransfers
      /\ transferResults[i + 1] = [index |-> i, status |-> "failed"]
      /\ \A j \in Idx : pc[j] \in {"done", "rejected"}

\* C8: the summary is produced only after every transfer has reached an
\* outcome, and the result list is ordered by request index whatever the
\* order in which the transfers completed.
C8_SummaryAfterAll ==
  summaryPrinted =>
    /\ \A i \in Idx : pc[i] \in {"done", "rejected"}
    /\ Len(settleOrder) = NumTransfers
    /\ \A k, l \in 1 .. Len(transferResults) :
         k < l => transferResults[k].index < transferResults[l].index

\* C8 witness: the summary is printed after the transfers completed in an
\* order other than the request order.
C8_Witness ==
  /\ summaryPrinted
  /\ \E k \in 1 .. (Len(settleOrder) - 1) : settleOrder[k] > settleOrder[k + 1]

\* Transfer i ended with result status settled.
ReachedSettled(i) ==
  /\ summaryPrinted
  /\ transferResults[i + 1].status = "settled"

\* C9: a batch run ends with exit code 1 if and only if at least one transfer
\* did not end with result status settled.
C9_ExitCode ==
  exitCode # "running" =>
    (exitCode = "exit1" <=> \E i \in Idx : ~ReachedSettled(i))

\* C9 witness: the run exits with 1 although no result is failed: one
\* transfer ended fulfilled or pending.
C9_Witness ==
  /\ summaryPrinted
  /\ exitCode = "exit1"
  /\ \A k \in 1 .. Len(transferResults) : transferResults[k].status # "failed"
  /\ \E k \in 1 .. Len(transferResults) : transferResults[k].status = "fulfilled"
  /\ \E k \in 1 .. Len(transferResults) : transferResults[k].status = "pending"

\* C10: pollIntentStatus stops exactly at the first settled reply: when the
\* k-th reply is the first with status settled and settled is a target
\* status, the session has returned with exactly k queries issued, k - 1
\* suspensions, none after the k-th query, and the returned intent is settled.
C10_StopsAtFirstSettled ==
  \A i \in Idx :
    (sess[i].firstSettled > 0 /\ "settled" \in sess[i].targets) =>
      /\ sess[i].ph = "returned"
      /\ sess[i].queries = sess[i].firstSettled
      /\ sess[i].attempts = sess[i].firstSettled
      /\ sess[i].sleeps = sess[i].firstSettled - 1
      /\ PollResult(sess[i]).intent = "settled"

\* C10 witness: replies not found, pending, fulfilled, settled; the session
\* returned at the fourth.
C10_Witness ==
  /\ sess[0].ph = "returned"
  /\ sess[0].firstSettled = 4
  /\ sess[0].firstFulfilled = 3
  /\ sess[0].notFoundAttempts = 1
  /\ sess[0].maxAttempts > 4

\* The session of call i has returned an IntentStatusResult.
Returned(i) == sess[i].ph = "returned"

\* The session of call i returned because the loop condition failed, not
\* through the break: every query was followed by a suspension.
Exhausted(i) ==
  /\ Returned(i)
  /\ sess[i].attempts = sess[i].maxAttempts
  /\ sess[i].sleeps = sess[i].attempts

C13_NotFoundCeiling ==
  \A i \in Idx :
    /\ (sess[i].attempts = 5 /\ sess[i].notFoundAttempts = 5) =>
         /\ sess[i].ph = "thrownNotFound"
         /\ sess[i].queries = 5
         /\ sess[i].sleeps = 4
    /\ (sess[i].attempts < 5 /\ sess[i].notFoundAttempts = sess[i].attempts) =>
         sess[i].ph # "thrownNotFound"

\* C13 witness: a session allowed 6 attempts has thrown at its 5th not-found
\* reply.
C13_Witness ==
  /\ sess[0].ph = "thrownNotFound"
  /\ sess[0].maxAttempts = 6
  /\ sess[0].attempts = 5
  /\ sess[0].nullRun = 5

\* C14: the not-found error is thrown only when 5 not-found replies have been
\* received in a row.
C14_ConsecutiveNotFound ==
  \A i \in Idx :
    sess[i].ph = "thrownNotFound" => sess[i].nullRun >= 5

\* C15: a session that ends by exhaustion returns the last intent record it
\* received (previousStatus holds the status of that record); the returned
\* intent is null only if no query returned a record.
C15_ExhaustionReturnsLast ==
  \A i \in Idx :
    Exhausted(i) =>
      /\ PollResult(sess[i]).intent = sess[i].previousStatus
      /\ (PollResult(sess[i]).intent = "null" => ~sess[i].everFound)

\* C16: whenever a session has received settled, its result carries
\* settledAt, also when fulfilled was never received; timeToSettle and
\* totalTime are then the only fields missing.
C16_SettledAtRecorded ==
  \A i \in Idx :
    (Returned(i) /\ sess[i].firstSettled > 0) =>
      LET r == PollResult(sess[i])
      IN /\ r.settledAt # -1
         /\ (sess[i].firstFulfilled = 0 =>
               (r.timeToSettle = -1 /\ r.totalTime = -1))

\* C17: timing fields are never back-filled: a result carries timeToFulfill
\* only if the session received a fulfilled reply, and timeToSettle and
\* totalTime only if it received both a fulfilled and a settled reply.
C17_NoBackfill ==
  \A i \in Idx :
    LET r == PollResult(sess[i])
    IN /\ (r.hasFulfill \/ r.timeToFulfill # -1 \/ r.fulfilledAt # -1) =>
            sess[i].firstFulfilled > 0
       /\ (r.hasSettle \/ r.timeToSettle # -1 \/ r.totalTime # -1) =>
            (sess[i].firstFulfilled > 0 /\ sess[i].firstSettled > 0)

\* C17 witness: a session returned a settled intent after several queries
\* without ever receiving fulfilled, and its result has no timing field.
C17_Witness ==
  /\ Returned(0)
  /\ PollResult(sess[0]).intent = "settled"
  /\ sess[0].firstFulfilled = 0
  /\ sess[0].attempts >= 2
  /\ ~PollResult(sess[0]).hasFulfill

\* approveToken has read the allowance of the submission.
AllowanceRead == sub.currentAllowance # -1

\* approveToken has returned and the transaction of the submission has not
\* been mined yet.
AfterApproveToken == sub.ph \in {"preview", "submit", "confirm"}

\* C18: approveToken called with an on-chain allowance >= amount sends no
\* approve transaction and returns at once, leaving every allowance as it
\* found it.
C18_SufficientAllowanceNoTx ==
  (AllowanceRead /\ sub.chain0[sub.spender] >= sub.required) =>
    /\ sub.approveTxs = 0
    /\ sub.ph \notin {"allowance", "approve", "approveWait"}
    /\ "approveTx" \notin { sub.trace[k] : k \in 1 .. Len(sub.trace) }
    /\ AfterApproveToken => sub.chain = sub.chain0

\* C18 witness: the allowance found equals the required amount and
\* approveToken has returned without a transaction.
C18_Witness ==
  /\ sub.ph = "preview"
  /\ sub.required > 0
  /\ sub.chain0[sub.spender] = sub.required
  /\ sub.approveTxs = 0

\* C19: approveToken called with an on-chain allowance < amount sends exactly
\* one approve transaction, for exactly the required amount, returns only
\* after that transaction is mined, and on return the allowance of the
\* spender is >= amount.
C19_ApproveExactlyOnce ==
  (AllowanceRead /\ sub.chain0[sub.spender] < sub.required) =>
    /\ sub.approveTxs = 1
    /\ sub.approveAmount = sub.required
    /\ sub.approveAmount = sub.amount + sub.tip
    /\ AfterApproveToken =>
         /\ sub.approveMined
         /\ sub.chain[sub.spender] >= sub.required
         /\ sub.chain[sub.spender] = sub.required

\* C19 witness: a non-zero allowance below the required amount was found and
\* approveToken has returned after one approve transaction.
C19_Witness ==
  /\ sub.ph = "preview"
  /\ sub.chain0[sub.spender] > 0
  /\ sub.chain0[sub.spender] < sub.required
  /\ sub.approveTxs = 1
  /\ sub.approveMined

\* The two orders of events a submission may go through.
OrderWithApprove ==
  << "allowance", "approveTx", "approveWait", "preview",
     "intentTx", "intentWait", "return" >>

OrderWithoutApprove ==
  << "allowance", "preview", "intentTx", "intentWait", "return" >>

IsPrefix(t, u) == Len(t) <= Len(u) /\ SubSeq(u, 1, Len(t)) = t

\* C20: every submission, transfer or call, goes through its steps in the
\* order allowance step for exactly amount + tip toward the contract it
\* talks to (intent contract for a transfer, initiator contract for a call),
\* getNextIntentId preview, state-changing transaction, wait, return; the
\* transaction is never sent before the allowance step has completed.
C20_SubmissionOrder ==
  sub.ph # "idle" =>
    /\ sub.required = sub.amount + sub.tip
    /\ sub.spender = (IF sub.kind = "transfer" THEN "intent" ELSE "initiator")
    /\ sub.spender = ContractOf(sub.kind)
    /\ IsPrefix(sub.trace, OrderWithApprove) \/ IsPrefix(sub.trace, OrderWithoutApprove)
    /\ sub.ph \in {"submit", "confirm", "returned"} =>
         /\ AllowanceRead
         /\ sub.approveTxs > 0 => sub.approveMined
         /\ sub.ph # "returned" => sub.chain[ContractOf(sub.kind)] >= sub.required
    /\ sub.ph = "returned" =>
         sub.trace \in {OrderWithApprove, OrderWithoutApprove}

\* C20 witness: a call submission returned after approving the initiator
\* contract.
C20_Witness ==
  /\ sub.ph = "returned"
  /\ sub.kind = "call"
  /\ sub.approveTxs = 1
  /\ sub.trace = OrderWithApprove

\* The session of call i is over: it returned or threw.
Ended(i) == sess[i].ph \in {"returned", "thrownNotFound", "thrownApi"}

\* The session of call i polls for the targets every caller passes.
CallerTargets(i) == sess[i].targets = {"fulfilled", "settled"}

\* A cancelled or failed reply does not end the session of call i: the
\* session sleeps and queries again, and when it returns with such an intent
\* it has exhausted its attempts and returns the status as received.
TerminalFailureIgnored(i) ==
  /\ (sess[i].intent \in {"cancelled", "failed"} /\ Returned(i)) =>
       /\ Exhausted(i)
       /\ PollResult(sess[i]).intent = sess[i].previousStatus
  /\ sess[i].intent \in {"cancelled", "failed"} =>
       sess[i].ph \in {"sleep", "query", "returned", "thrownApi"}

\* C24 as stated: with the targets fulfilled and settled, a session ends
\* before maxAttempts queries only by a settled reply or by the not-found
\* error, and a cancelled or failed reply never ends it early.
C24_OnlySettledOrNotFound ==
  \A i \in Idx :
    CallerTargets(i) =>
      /\ (Ended(i) /\ sess[i].queries < sess[i].maxAttempts) =>
           (sess[i].firstSettled > 0 \/ sess[i].ph = "thrownNotFound")
      /\ TerminalFailureIgnored(i)

\* C24 amended: with the targets fulfilled and settled, a session ends
\* before maxAttempts queries only by a settled reply, by the not-found
\* error, or by a getIntent error other than a 404, which pollIntentStatus
\* lets through; a cancelled or failed reply never ends it early.
C24_EarlyEndCauses ==
  \A i \in Idx :
    CallerTargets(i) =>
      /\ (Ended(i) /\ sess[i].queries < sess[i].maxAttempts) =>
           \/ sess[i].firstSettled > 0
           \/ sess[i].ph = "thrownNotFound"
           \/ sess[i].ph = "thrownApi"
      /\ (Returned(i) /\ sess[i].firstSettled = 0) => Exhausted(i)
      /\ TerminalFailureIgnored(i)

\* C24 witness: the session received cancelled and has issued another query.
C24_Witness ==
  /\ CallerTargets(0)
  /\ sess[0].ph = "query"
  /\ sess[0].intent = "cancelled"
  /\ sess[0].attempts >= 1

\* C25: fulfilledAt is set at the first fulfilled reply and never assigned
\* again.
C25_FulfilledAtSetOnce ==
  [][ \A i \in Idx :
        /\ (sess[i].firstFulfilled = 0 /\ sess'[i].firstFulfilled > 0) =>
             sess'[i].fulfilledAt = now'
        /\ (sess[i].fulfilledAt # -1 /\ sess'[i].ph # "idle") =>
             sess'[i].fulfilledAt = sess[i].fulfilledAt ]_vars

\* C28: a session never issues more than maxAttempts queries, every query
\* after the first follows exactly one suspension, and a session that issued
\* q queries has suspended q - 1 times, never after its last query.
C28_SuspensionsBetweenQueries ==
  \A i \in Idx :
    /\ sess[i].queries <= sess[i].maxAttempts
    /\ sess[i].ph = "query" => sess[i].sleeps = sess[i].queries - 1
    /\ (Ended(i) /\ sess[i].queries > 0) => sess[i].sleeps = sess[i].queries - 1

C26_TableReflectsHolder ==
  \A c \in SupportedChains : Submitting(c) # {} => locks[c] # {}

\* Chains and asset of request i pass the checks of lines 88-111.
Validated(i) ==
  /\ cfg[i].src \in SupportedChains
  /\ cfg[i].dst \in SupportedChains
  /\ cfg[i].asset \in ChainAssets[cfg[i].src]
  /\ cfg[i].asset \in ChainAssets[cfg[i].dst]

\* Call i has called acquireLock, sent a transaction or a status query.
PastValidation(i) ==
  \/ pc[i] \in {"waiting", "woken", "released", "polling", "balanceOf", "decimals"}
  \/ InSubmission(i)
  \/ releaseCalled[i]
  \/ subErr[i]
  \/ sess[i].queries > 0
  \/ \E c \in SupportedChains :
       locks[c] = {i} \/ \E k \in 1 .. Len(waiting[c]) : waiting[c][k] = i

\* C27: a transfer calls acquireLock only after its chains and its asset have
\* been validated; a transfer whose asset is missing on the source or the
\* destination chain never locks, never submits and never polls.
C27_ValidationBeforeLock ==
  \A i \in Idx :
    /\ PastValidation(i) => Validated(i)
    /\ ~Validated(i) => pc[i] \in {"init", "done", "rejected"}
    /\ (~Validated(i) /\ pc[i] = "done") => result[i] = "failed"

\* C27 witness: a transfer whose asset is missing on the destination chain
\* only has failed, while another transfer is confirming its transaction.
C27_Witness ==
  \E i, j \in Idx :
    /\ cfg[i].src = "arbitrum"
    /\ cfg[i].dst = "base"
    /\ cfg[i].asset = "usdt"
    /\ pc[i] = "done"
    /\ result[i] = "failed"
    /\ pc[j] = "confirm"

\* C29: whenever a transfer of a batch has sent its initiating transaction,
\* the allowance of the intent contract on its source chain covers its
\* amount + tip.
C29_AllowanceAtSubmission ==
  \A i \in Idx :
    pc[i] \in {"submit", "confirm"} =>
      allowance[cfg[i].src] >= cfg[i].amount + cfg[i].fee

\* C22: a call whose submission phase raised an error (allowance read,
\* approval, intent-ID preview, submission or confirmation) carries that error
\* out of the phase: it performs no further step of the phase (no retry), it
\* issues no status query, and once it has returned its result is failed with
\* a message that contains the message of the error raised.
C22_SubmissionErrorFails ==
  \A i \in Idx :
    subErr[i] =>
      /\ thrown[i] # "none"
      /\ pc[i] \in {"released", "done"}
      /\ sess[i].queries = 0
      /\ pc[i] = "done" =>
            /\ result[i] = "failed"
            /\ \E k \in 1..Len(message[i]) : message[i][k] = thrown[i]

\* C22 witness: two calls have returned after errors at different steps of
\* the submission phase, one at the allowance read and one at the
\* confirmation of the intent transaction (a revert), each failed with its
\* own error in the message, while a third call went on to poll.
C22_Witness ==
  \E i, j, k \in Idx :
    /\ subErr[i] /\ pc[i] = "done" /\ result[i] = "failed"
    /\ message[i] = << "Transfer failed: ", "allowance" >>
    /\ subErr[j] /\ pc[j] = "done" /\ result[j] = "failed"
    /\ message[j] = << "Transfer failed: ", "execution reverted" >>
    /\ ~subErr[k] /\ sess[k].queries > 0

\* Call i is inside acquireLock: it created the entry and its return is
\* queued, or it is suspended on the promise, or it was woken by resolve().
InAcquireLock(i) == pc[i] \in {"waiting", "woken", "acquired"}

\* C30: under fair scheduling every call that is inside acquireLock returns
\* from it and starts its submission phase (unless process.exit ends the
\* process first), and whenever every call that reached acquireLock has
\* called releaseLock the lock table is empty.
C30_NoLostWakeup ==
  /\ \A i \in Idx :
       InAcquireLock(i) ~> (pc[i] = "allowance" \/ exitCode = "exit1")
  /\ []((/\ launched = NumTransfers
         /\ \A i \in Idx : pc[i] \notin {"init", "rejected"} /\ ~InAcquireLock(i)
                               /\ ~InSubmission(i))
        => \A c \in SupportedChains : locks[c] = {} /\ waiting[c] = << >>)

\* C30 witness: three calls on one source chain, of which the second and the
\* third were suspended in acquireLock behind the first, have all gone
\* through their submission phase and released, and the lock table is empty.
C30_Witness ==
  /\ \A i \in Idx : cfg[i].src = cfg[0].src /\ releaseCalled[i]
  /\ \A c \in SupportedChains : locks[c] = {} /\ waiting[c] = << >>

====
